---- MODULE Spec2Model ----
(***************************************************************************)
(* The image-target Tracker (src/unnamed/part_000): construction of the    *)
(* target store, the per-frame track() call with its projection and        *)
(* matching kernels, the kernel cache and the warm-up dummyRun().          *)
(*                                                                         *)
(* Numbers.  JavaScript/GLSL floats are modelled by exact rationals        *)
(* <<n, d>> (d > 0, lowest terms); int(float) truncates toward zero.  A    *)
(* similarity score is a pair <<n, d>> standing for n / sqrt(d), so that   *)
(* the normalised cross-correlation and the sentinels -2, -3, -4 are       *)
(* compared exactly.  Pixel intensities are 0 or 1.                        *)
(***************************************************************************)
EXTENDS Integers, Sequences, FiniteSets, TLC

VARIABLES
  cfg,                  \* the constants imported at part_000:4-11
  phase,                \* "new" | "ready" | "failed" (the constructor threw)
  debugMode,            \* this.debugMode
  trackingKeyframeList, \* this.trackingKeyframeList
  featurePointsListT,   \* this.featurePointsListT (values of the tensors)
  kernelCaches,         \* this.kernelCaches
  builds,               \* history: the cache slots written, in order
  live,                 \* the device tensors that are alive (not disposed)
  out                   \* the last call: its arguments, what it did and returned

vars == <<cfg, phase, debugMode, trackingKeyframeList, featurePointsListT,
          kernelCaches, builds, live, out>>


(***************************************************************************)
(* Bounds of the model.                                                    *)
(***************************************************************************)
MaxTargets == 2
MaxLeaks == 1

(***************************************************************************)
(* Exact arithmetic.                                                       *)
(***************************************************************************)
Abs(a) == IF a < 0 THEN -a ELSE a

RECURSIVE Gcd(_, _)
Gcd(a, b) == IF b = 0 THEN a ELSE Gcd(b, a % b)

\* n/d in lowest terms with a positive denominator
Rat(n, d) ==
  LET s == IF d < 0 THEN -1 ELSE 1
      g == Gcd(Abs(n), Abs(d))
  IN  <<(s * n) \div g, (s * d) \div g>>

RatAdd(a, b) == Rat(a[1] * b[2] + b[1] * a[2], a[2] * b[2])
RatMul(a, b) == Rat(a[1] * b[1], a[2] * b[2])
RatDiv(a, b) == Rat(a[1] * b[2], a[2] * b[1])

\* GLSL int(float): truncation toward zero
Trunc(a) == IF a[1] >= 0 THEN a[1] \div a[2] ELSE -((-a[1]) \div a[2])

\* JavaScript Number -> string for the rationals with a finite decimal expansion
RECURSIVE FracDigits(_, _)
FracDigits(r, d) ==
  IF r = 0 THEN "" ELSE ToString((r * 10) \div d) \o FracDigits((r * 10) % d, d)

NumberToString(a) ==
  LET m == Abs(a[1])
      whole == ToString(m \div a[2])
      frac == FracDigits(m % a[2], a[2])
  IN  (IF a[1] < 0 THEN "-" ELSE "") \o whole \o (IF frac = "" THEN "" ELSE "." \o frac)

\* a score <<n, d>> is the number n / sqrt(d)
ScoreGt(a, b) ==
  IF a[1] >= 0
    THEN IF b[1] < 0 THEN TRUE ELSE a[1] * a[1] * b[2] > b[1] * b[1] * a[2]
    ELSE IF b[1] >= 0 THEN FALSE ELSE a[1] * a[1] * b[2] < b[1] * b[1] * a[2]

Sentinel(v) == <<v, 1>>
IsSentinel(s) == s \in {Sentinel(-2), Sentinel(-3), Sentinel(-4)}

(***************************************************************************)
(* The imported constants.  Their values live in utils/constant/tracker,   *)
(* which is outside src/; the model draws them from a few small value      *)
(* sets.  searchGridHalfCount of the design is AR2_SEARCH_SIZE.            *)
(***************************************************************************)
Config(ts, tsGap, ss, sGap) ==
  [AR2_DEFAULT_TS |-> ts, AR2_DEFAULT_TS_GAP |-> tsGap,
   AR2_SEARCH_SIZE |-> ss, AR2_SEARCH_GAP |-> sGap]

Configs == {Config(1, 1, 1, 1), Config(1, 1, 2, 1)}

\* further values, for the kernels taken alone
KernelConfigs == Configs \cup {Config(1, 1, 1, 2), Config(1, 2, 1, 1)}

\* 0.8 as a score: 4 / sqrt(25)
AR2_SIM_THRESH == <<4, 25>>

(***************************************************************************)
(* Pixel data.  An image is named by its pattern; Pattern gives the        *)
(* intensity at column x, row y.                                           *)
(***************************************************************************)
\* the patterns of the rectified images
Patterns == {"flat", "dot", "edge"}

Pattern(kind, x, y) ==
  CASE kind = "flat" -> 1
    [] kind = "dot" -> IF x = 2 /\ y = 2 THEN 1 ELSE 0
    [] kind = "dots" -> IF (x = 2 /\ y = 2) \/ (x = 0 /\ y = 0) THEN 1 ELSE 0
    [] kind = "edge" -> IF x >= 3 THEN 1 ELSE 0

\* what a read outside a buffer returns: undefined, one of these
Garbages == {"zero", "noise"}
Garbage(g, p) == IF g = "zero" THEN 0 ELSE p % 2

(***************************************************************************)
(* Keyframes (ITrackingFeature) the datasets may hold.                     *)
(***************************************************************************)
Point(px, py) == [x |-> px, y |-> py]

Keyframe(w, h, s, pts, d) == [width |-> w, height |-> h, scale |-> s, points |-> pts, data |-> d]

Keyframes ==
  { Keyframe(5, 5, Rat(1, 1), <<Point(2, 2)>>, "dots"),
    Keyframe(5, 5, Rat(1, 1), <<>>, "flat"),
    Keyframe(7, 4, Rat(1, 2), <<Point(1, 1), Point(3, 2)>>, "edge") }

\* A dataset (ITrackingFeature[]) is held as the sequence of what it has at index
\* TRACKING_KEYFRAME: one keyframe, or nothing (the entry is undefined).
Datasets == {<<>>} \cup {<<k>> : k \in Keyframes}

\* array[i] of a JavaScript array held as a sequence
At(seq, i) == seq[i + 1]
Indices(seq) == 0 .. Len(seq) - 1

Max(a, b) == IF a > b THEN a ELSE b

\* <<F(0), ..., F(n - 1)>>
RECURSIVE Table(_, _, _)
Table(F(_), i, n) == IF i >= n THEN <<>> ELSE <<F(i)>> \o Table(F, i + 1, n)

RECURSIVE Dot(_, _, _)
Dot(a, b, i) == IF i > Len(a) THEN 0 ELSE a[i] * b[i] + Dot(a, b, i + 1)

RECURSIVE Sum(_, _)
Sum(a, i) == IF i > Len(a) THEN 0 ELSE a[i] + Sum(a, i + 1)

(***************************************************************************)
(* _prebuild: the padded feature batch and the marker properties.          *)
(***************************************************************************)
prebuildFeaturePoints(trackingFrame, maxCount) ==
  Table(LAMBDA k :
          IF k < Len(trackingFrame.points)
            THEN <<RatDiv(Rat(At(trackingFrame.points, k).x, 1), trackingFrame.scale),
                   RatDiv(Rat(At(trackingFrame.points, k).y, 1), trackingFrame.scale)>>
            ELSE <<Rat(-1, 1), Rat(-1, 1)>>,
        0, maxCount)

prebuildImageProperties(trackingFrame) ==
  [width |-> trackingFrame.width, height |-> trackingFrame.height, scale |-> trackingFrame.scale]

(***************************************************************************)
(* The kernel definitions _computeMatching builds: the values its template *)
(* strings interpolate.                                                    *)
(***************************************************************************)
BuildMatchingKernels(c, featureCount, targetHeight, targetWidth) ==
  LET templateOneSize == c.AR2_DEFAULT_TS
      templateGap == c.AR2_DEFAULT_TS_GAP
      searchOneSize == c.AR2_SEARCH_SIZE * templateGap
  IN  [featureCount |-> featureCount,
       templateOneSize |-> templateOneSize,
       templateSize |-> templateOneSize * 2 + 1,
       searchOneSize |-> searchOneSize,
       searchGap |-> c.AR2_SEARCH_GAP,
       searchSize |-> searchOneSize * 2 + 1,
       targetHeight |-> targetHeight,
       targetWidth |-> targetWidth]

\* a rectified image: its pattern and its shape
Image(kind, h, w) == [kind |-> kind, height |-> h, width |-> w]

getMarkerPixels(tf, g, p) ==
  IF 0 <= p /\ p < tf.width * tf.height
    THEN Pattern(tf.data, p % tf.width, p \div tf.width)
    ELSE Garbage(g, p)

getTargetPixels(img, g, row, col) ==
  IF 0 <= row /\ row < img.height /\ 0 <= col /\ col < img.width
    THEN Pattern(img.kind, col, row)
    ELSE Garbage(g, row * img.width + col)

(***************************************************************************)
(* kernel1 at output coordinate (featureIndex, searchOffsetIndex).         *)
(***************************************************************************)
sCenter(features, props, featureIndex) ==
  [x |-> Trunc(RatMul(At(features, featureIndex)[1], props.scale)),
   y |-> Trunc(RatMul(At(features, featureIndex)[2], props.scale))]

searchStart(K, features, props, featureIndex, searchOffsetIndex) ==
  LET searchOffsetX == (searchOffsetIndex % K.searchSize) * K.searchGap
      searchOffsetY == (searchOffsetIndex \div K.searchSize) * K.searchGap
      c == sCenter(features, props, featureIndex)
  IN  [x |-> c.x + searchOffsetX - K.searchOneSize,
       y |-> c.y + searchOffsetY - K.searchOneSize]

OutsideInterior(K, s) ==
  \/ s.x < K.templateOneSize
  \/ s.x >= K.targetWidth - K.templateOneSize
  \/ s.y < K.templateOneSize
  \/ s.y >= K.targetHeight - K.templateOneSize

\* the loop's offsets (templateOffsetX, templateOffsetY), in loop order
TemplateOffset(K, o) == <<o % K.templateSize, o \div K.templateSize>>
TemplateCount(K) == K.templateSize * K.templateSize

\* the template reads (fx2, fy2) and the rectified-image reads (sx2, sy2) of the loop
markerRead(K, c, o) == [x |-> c.x + o[1] - K.templateOneSize, y |-> c.y + o[2] - K.templateOneSize]
targetRead(K, s, o) == [x |-> s.x + o[1] - K.templateOneSize, y |-> s.y + o[2] - K.templateOneSize]

markerPixelAt(K, tf, g, c, o) ==
  LET r == markerRead(K, c, o) IN getMarkerPixels(tf, g, r.y * tf.width + r.x)

targetPixelAt(K, img, g, s, o) ==
  LET r == targetRead(K, s, o) IN getTargetPixels(img, g, r.y, r.x)

\* a variance that leaves the mean in: count * sumSquare
ScaledSecondMoment(count, sum, sumSquare) == count * sumSquare

\* count * (sumSquare - sum / count * sum), an integer; it is 0 exactly when
\* sqrt(sumSquare - sum / count * sum) is: the radicand is a multiple of 1/count
ScaledVariance(count, sum, sumSquare) == count * sumSquare - sum * sum

BelowEpsilon(scaledVariance) == scaledVariance = 0

kernel1(K, features, tf, img, g, featureIndex, searchOffsetIndex) ==
  LET props == prebuildImageProperties(tf)
      c == sCenter(features, props, featureIndex)
      s == searchStart(K, features, props, featureIndex, searchOffsetIndex)
  IN  IF OutsideInterior(K, s) THEN Sentinel(-2)
      ELSE
        LET count == TemplateCount(K)
            markerPixel == Table(LAMBDA o : markerPixelAt(K, tf, g, c, TemplateOffset(K, o)), 0, count)
            targetPixel == Table(LAMBDA o : targetPixelAt(K, img, g, s, TemplateOffset(K, o)), 0, count)
            sumTemplate == Sum(markerPixel, 1)
            sumTemplateSquare == Dot(markerPixel, markerPixel, 1)
            sumPoint == Sum(targetPixel, 1)
            sumPointSquare == Dot(targetPixel, targetPixel, 1)
            sumPointTemplate == Dot(targetPixel, markerPixel, 1)
            pointVariance == ScaledVariance(count, sumPoint, sumPointSquare)
            templateVariance == ScaledVariance(count, sumTemplate, sumTemplateSquare)
        IN  IF BelowEpsilon(pointVariance) THEN Sentinel(-3)
            ELSE IF BelowEpsilon(templateVariance) THEN Sentinel(-4)
            ELSE <<count * sumPointTemplate - sumPoint * sumTemplate,
                   pointVariance * templateVariance>>

(***************************************************************************)
(* argMax(1), kernel2 and kernel3.                                         *)
(***************************************************************************)
\* the index of the maximum of row[0 .. n - 1]; of equal maxima, the last
RECURSIVE argMaxLastFrom(_, _, _, _)
argMaxLastFrom(row, n, i, best) ==
  IF i >= n THEN best
  ELSE argMaxLastFrom(row, n, i + 1, IF ScoreGt(At(row, best), At(row, i)) THEN best ELSE i)

argMaxLast(row, n) == argMaxLastFrom(row, n, 1, 0)

\* the index of the maximum of row[0 .. n - 1]; of equal maxima, the first
RECURSIVE argMaxFrom(_, _, _, _)
argMaxFrom(row, n, i, best) ==
  IF i >= n THEN best
  ELSE argMaxFrom(row, n, i + 1, IF ScoreGt(At(row, i), At(row, best)) THEN i ELSE best)

argMax(row, n) == argMaxFrom(row, n, 1, 0)

kernel2(K, features, props, maxIndex, featureIndex) ==
  LET searchOffsetIndex == maxIndex % (K.searchSize * K.searchSize)
      searchOffsetX == (searchOffsetIndex % K.searchSize) * K.searchGap
      searchOffsetY == (searchOffsetIndex \div K.searchSize) * K.searchGap
  IN  <<RatAdd(At(features, featureIndex)[1], RatDiv(Rat(searchOffsetX - K.searchOneSize, 1), props.scale)),
        RatAdd(At(features, featureIndex)[2], RatDiv(Rat(searchOffsetY - K.searchOneSize, 1), props.scale))>>

kernel3(sims, maxIndex, featureIndex) == At(At(sims, featureIndex), At(maxIndex, featureIndex))

(***************************************************************************)
(* The kernel cache.  computeMatching is <<>> until it is set;             *)
(* computeProjection is a set of [key, kernel] entries.                    *)
(***************************************************************************)
EmptyCaches == [computeMatching |-> <<>>, computeProjection |-> {}]

kernelKey(trackingFrame) ==
  ToString(trackingFrame.width) \o "-" \o ToString(trackingFrame.height)
    \o "-" \o NumberToString(trackingFrame.scale)

HasProjection(caches, key) == \E e \in caches.computeProjection : e.key = key
ProjectionOf(caches, key) == (CHOOSE e \in caches.computeProjection : e.key = key).kernel

\* this.kernelCaches.computeProjection[kernelKey] = kernel
PutProjection(caches, key, kernel) ==
  [caches EXCEPT !.computeProjection =
     {e \in @ : e.key # key} \cup {[key |-> key, kernel |-> kernel]}]

BuildProjectionKernel(trackingFrame) ==
  [outputShape |-> <<trackingFrame.height, trackingFrame.width>>,
   markerScale |-> trackingFrame.scale]

HasMatching(caches) == Len(caches.computeMatching) > 0

(***************************************************************************)
(* Device tensors: how many of each kind are alive.                        *)
(***************************************************************************)
NoTensors ==
  [featurePoints |-> 0, imagePixels |-> 0, imageProperties |-> 0,
   modelViewProjectionTransform |-> 0, projectedImage |-> 0,
   allSims |-> 0, maxIndex |-> 0, matchingPoints |-> 0, sim |-> 0]

Alloc(l, kind) == [l EXCEPT ![kind] = @ + 1]
Dispose(l, kind) == [l EXCEPT ![kind] = @ - 1]

\* the target store of a tracker with n targets
PersistentTensors(n) ==
  [NoTensors EXCEPT !.featurePoints = n, !.imagePixels = n, !.imageProperties = n]

(***************************************************************************)
(* Inputs of a call.                                                       *)
(***************************************************************************)
DummyTransform == <<<<1, 1, 1, 1>>, <<1, 1, 1, 1>>, <<1, 1, 1, 1>>>>
Transforms == {DummyTransform, <<<<1, 0, 0, 0>>, <<0, 1, 0, 0>>, <<0, 0, 1, 1>>>>}

\* the stage of a call at which the backend fails, if any
Failures == {"none", "projection", "matching", "readback"}

\* buildModelViewProjectionTransform and computeScreenCoordiate are imported
\* from estimation/utils: kept as uninterpreted applications
buildModelViewProjectionTransform(projectionTransform, modelViewTransform) ==
  [projection |-> projectionTransform, modelView |-> modelViewTransform]

computeScreenCoordiate(modelViewProjectionTransform, x, y) ==
  [transform |-> modelViewProjectionTransform, x |-> x, y |-> y]

(***************************************************************************)
(* track(), its effect on the tracker.  The operator takes the mutable     *)
(* part of the tracker (caches, build history, live tensors) and gives it  *)
(* after the call, with whether the call returned or threw.  fail is the   *)
(* stage at which the backend throws, if any.                              *)
(***************************************************************************)
\* a _computeProjection that builds its kernel on every call
projectionCachesRebuilt(caches, b, trackingFrame) ==
  [caches |-> PutProjection(caches, kernelKey(trackingFrame), BuildProjectionKernel(trackingFrame)),
   builds |-> Append(b, kernelKey(trackingFrame))]

\* _computeProjection up to the cache write: the caches and build history after it
projectionCaches(caches, b, trackingFrame) ==
  LET key == kernelKey(trackingFrame)
  IN  IF HasProjection(caches, key)
        THEN [caches |-> caches, builds |-> b]
        ELSE [caches |-> PutProjection(caches, key, BuildProjectionKernel(trackingFrame)),
              builds |-> Append(b, key)]

\* _computeMatching up to the cache write
matchingCaches(caches, b, featureCount, shape) ==
  IF HasMatching(caches)
    THEN [caches |-> caches, builds |-> b]
    ELSE [caches |-> [caches EXCEPT !.computeMatching =
                        <<BuildMatchingKernels(cfg, featureCount, shape[1], shape[2])>>],
          builds |-> Append(b, "computeMatching")]

Tracker(caches, b, l, status) == [caches |-> caches, builds |-> b, live |-> l, status |-> status]

track(caches, b, l, targetIndex, fail) ==
  LET l1 == Alloc(l, "modelViewProjectionTransform")
  IN  IF targetIndex \notin Indices(trackingKeyframeList)
        \* destructuring undefined in _computeProjection
        THEN Tracker(caches, b, l1, "threw")
      ELSE
        LET trackingFrame == At(trackingKeyframeList, targetIndex)
            p == projectionCaches(caches, b, trackingFrame)
        IN  IF fail = "projection"
              THEN Tracker(p.caches, p.builds, l1, "threw")
            ELSE
              LET l2 == Alloc(l1, "projectedImage")
                  shape == ProjectionOf(p.caches, kernelKey(trackingFrame)).outputShape
                  m == matchingCaches(p.caches, p.builds,
                                      Len(At(featurePointsListT, targetIndex)), shape)
              IN  IF fail = "matching"
                    \* tf.tidy releases allSims and maxIndex
                    THEN Tracker(m.caches, m.builds, l2, "threw")
                  ELSE
                    LET l3 == Alloc(Alloc(l2, "matchingPoints"), "sim")
                    IN  IF fail = "readback"
                          THEN Tracker(m.caches, m.builds, l3, "threw")
                        ELSE
                          Tracker(m.caches, m.builds,
                                  Dispose(Dispose(Dispose(Dispose(l3,
                                    "modelViewProjectionTransform"), "projectedImage"),
                                    "matchingPoints"), "sim"),
                                  "ok")

(***************************************************************************)
(* track(), what a call that does not throw returns.  caches are the       *)
(* caches the call leaves; pattern names the content of the rectified      *)
(* image the projection of the camera frame yields, g what reads outside   *)
(* a buffer give.                                                          *)
(***************************************************************************)
NoResult ==
  [image |-> <<>>, garbage |-> <<>>, allSims |-> <<>>, maxIndex |-> <<>>,
   matchingPoints |-> <<>>, sim |-> <<>>, goodTrack |-> <<>>,
   worldCoords |-> <<>>, screenCoords |-> <<>>, debugExtra |-> <<>>]

\* sim[i] > AR2_SIM_THRESH && i < trackingFrame.points.length
\* an extraction loop without the similarity test
AcceptedAnySimilarity(sim, i, trackingFrame) == i < Len(trackingFrame.points)

Accepted(sim, i, trackingFrame) ==
  ScoreGt(At(sim, i), AR2_SIM_THRESH) /\ i < Len(trackingFrame.points)

worldCoord(trackingFrame, i) ==
  [x |-> RatDiv(Rat(At(trackingFrame.points, i).x, 1), trackingFrame.scale),
   y |-> RatDiv(Rat(At(trackingFrame.points, i).y, 1), trackingFrame.scale),
   z |-> 0]

modelViewProjectionTransformOf(transform) ==
  buildModelViewProjectionTransform("projectionTransform", transform)

\* _computeMatching's tidy: the values of allSims, maxIndex, matchingPointsT and simT
computeMatching(caches, pattern, targetIndex, g) ==
  LET trackingFrame == At(trackingKeyframeList, targetIndex)
      features == At(featurePointsListT, targetIndex)
      shape == ProjectionOf(caches, kernelKey(trackingFrame)).outputShape
      img == Image(pattern, shape[1], shape[2])
      K == caches.computeMatching[1]
      featureCount == K.featureCount
      candidates == K.searchSize * K.searchSize
      props == prebuildImageProperties(trackingFrame)
      allSims == Table(LAMBDA f : Table(LAMBDA c : kernel1(K, features, trackingFrame, img, g, f, c),
                                        0, candidates),
                       0, featureCount)
      maxIndex == Table(LAMBDA f : argMax(At(allSims, f), candidates), 0, featureCount)
  IN  [image |-> img, allSims |-> allSims, maxIndex |-> maxIndex,
       matchingPoints |-> Table(LAMBDA f : kernel2(K, features, props, At(maxIndex, f), f),
                                0, featureCount),
       sim |-> Table(LAMBDA f : kernel3(allSims, maxIndex, f), 0, featureCount)]

\* the extraction loop of track() and what track() returns
returned(M, transform, targetIndex, g) ==
  LET trackingFrame == At(trackingKeyframeList, targetIndex)
      mvp == modelViewProjectionTransformOf(transform)
      goodTrack == SelectSeq(Table(LAMBDA i : i, 0, Len(M.matchingPoints)),
                             LAMBDA i : Accepted(M.sim, i, trackingFrame))
      screenCoords == Table(LAMBDA k : computeScreenCoordiate(mvp,
                                         At(M.matchingPoints, At(goodTrack, k))[1],
                                         At(M.matchingPoints, At(goodTrack, k))[2]),
                            0, Len(goodTrack))
      worldCoords == Table(LAMBDA k : worldCoord(trackingFrame, At(goodTrack, k)), 0, Len(goodTrack))
  IN  [image |-> <<M.image>>, garbage |-> <<g>>,
       allSims |-> M.allSims, maxIndex |-> M.maxIndex,
       matchingPoints |-> M.matchingPoints, sim |-> M.sim, goodTrack |-> goodTrack,
       worldCoords |-> worldCoords, screenCoords |-> screenCoords,
       debugExtra |-> IF debugMode
                        THEN <<[projectedImage |-> M.image, matchingPoints |-> M.matchingPoints,
                                goodTrack |-> goodTrack, trackedPoints |-> screenCoords]>>
                        ELSE <<>>]

(***************************************************************************)
(* dummyRun(): track on every target in turn; a throw ends the loop.       *)
(* failAt is the target index at whose call the backend fails with `fail`. *)
(***************************************************************************)
Call(targetIndex, transform) == [targetIndex |-> targetIndex, transform |-> transform]

\* a warm-up of the target at targetIndex alone
dummyRunOne(T, calls, targetIndex, failAt, fail) ==
  IF ~(targetIndex < Len(featurePointsListT))
    THEN [tracker |-> T, calls |-> calls]
  ELSE [tracker |-> track(T.caches, T.builds, T.live, targetIndex,
                          IF targetIndex = failAt THEN fail ELSE "none"),
        calls |-> Append(calls, Call(targetIndex, DummyTransform))]

RECURSIVE dummyRunFrom(_, _, _, _, _)
dummyRunFrom(T, calls, targetIndex, failAt, fail) ==
  IF ~(targetIndex < Len(featurePointsListT))
    THEN [tracker |-> T, calls |-> calls]
  ELSE
    LET T2 == track(T.caches, T.builds, T.live, targetIndex,
                    IF targetIndex = failAt THEN fail ELSE "none")
        calls2 == Append(calls, Call(targetIndex, DummyTransform))
    IN  IF T2.status = "threw"
          THEN [tracker |-> T2, calls |-> calls2]
          ELSE dummyRunFrom(T2, calls2, targetIndex + 1, failAt, fail)

(***************************************************************************)
(* The state machine.                                                      *)
(***************************************************************************)
NoOut == [op |-> "none", threw |-> FALSE, args |-> <<>>, calls |-> <<>>, result |-> NoResult]

SeqsUpTo(S, n) == UNION {[1 .. k -> S] : k \in 0 .. n}

RECURSIVE maxCountOf(_)
maxCountOf(keyframes) ==
  IF keyframes = <<>> THEN 0
  ELSE Max(maxCountOf(Tail(keyframes)), Len(Head(keyframes).points))

InitWith(configs) ==
  /\ cfg \in configs
  /\ phase = "new"
  /\ debugMode = FALSE
  /\ trackingKeyframeList = <<>>
  /\ featurePointsListT = <<>>
  /\ kernelCaches = EmptyCaches
  /\ builds = <<>>
  /\ live = NoTensors
  /\ out = NoOut

Init == InitWith(Configs)

\* new Tracker(_markerDimensions, trackingDataList, projectionTransform, w, h, debugMode);
\* _markerDimensions is given by its length
ConstructorWith(debugModes) ==
  /\ phase = "new"
  /\ \E trackingDataList \in SeqsUpTo(Datasets, MaxTargets), extra \in {0, 1}, dm \in debugModes :
       LET args == <<Len(trackingDataList) + extra, trackingDataList, dm>>
       IN  IF \E i \in 1 .. Len(trackingDataList) : Len(trackingDataList[i]) = 0
             \* trackingKeyframeList[i] is undefined: reading .points throws
             THEN /\ phase' = "failed"
                  /\ out' = [NoOut EXCEPT !.op = "constructor", !.threw = TRUE, !.args = args]
                  /\ UNCHANGED <<debugMode, trackingKeyframeList, featurePointsListT, live>>
             ELSE LET keyframes == [i \in 1 .. Len(trackingDataList) |-> trackingDataList[i][1]]
                      maxCount == maxCountOf(keyframes)
                  IN  /\ phase' = "ready"
                      /\ debugMode' = dm
                      /\ trackingKeyframeList' = keyframes
                      /\ featurePointsListT' =
                           [i \in 1 .. Len(keyframes) |-> prebuildFeaturePoints(keyframes[i], maxCount)]
                      /\ live' = PersistentTensors(Len(keyframes))
                      /\ out' = [NoOut EXCEPT !.op = "constructor", !.args = args]
  /\ kernelCaches' = EmptyCaches
  /\ UNCHANGED <<cfg, builds>>

Constructor == ConstructorWith(BOOLEAN)

Leaked == live.modelViewProjectionTransform

\* tracker.track(inputImageT, lastModelViewTransform, targetIndex), where the backend
\* may fail as `fails` allow
TrackWith(targets, fails) ==
  /\ phase = "ready"
  /\ \E transform \in Transforms, fail \in fails, targetIndex \in targets :
       LET T == track(kernelCaches, builds, live, targetIndex, fail)
       IN  /\ T.status = "threw" => Leaked < MaxLeaks
           /\ kernelCaches' = T.caches
           /\ builds' = T.builds
           /\ live' = T.live
           /\ out' = [op |-> "track", threw |-> T.status = "threw",
                      args |-> <<targetIndex, transform>>,
                      calls |-> <<Call(targetIndex, transform)>>, result |-> NoResult]
  /\ UNCHANGED <<cfg, phase, debugMode, trackingKeyframeList, featurePointsListT>>

Track == TrackWith(0 .. Len(trackingKeyframeList), Failures)

\* tracker.dummyRun(inputT)
DummyRun ==
  /\ phase = "ready"
  /\ \E fail \in Failures, failAt \in 0 .. Len(trackingKeyframeList) :
       LET R == dummyRunFrom(Tracker(kernelCaches, builds, live, "ok"), <<>>, 0, failAt, fail)
       IN  /\ R.tracker.status = "threw" => Leaked < MaxLeaks
           /\ kernelCaches' = R.tracker.caches
           /\ builds' = R.tracker.builds
           /\ live' = R.tracker.live
           /\ out' = [op |-> "dummyRun", threw |-> R.tracker.status = "threw", args |-> <<>>,
                      calls |-> R.calls, result |-> NoResult]
  /\ UNCHANGED <<cfg, phase, debugMode, trackingKeyframeList, featurePointsListT>>

Next == Constructor \/ Track \/ DummyRun

Spec == Init /\ [][Next]_vars

(***************************************************************************)
(* The same tracker on a healthy backend, called with valid target         *)
(* indices: any number of calls, then one call whose returned value the    *)
(* state records.                                                          *)
(***************************************************************************)
InitObserved == InitWith(KernelConfigs)

ConstructorObserved == ConstructorWith({FALSE})

TrackHealthy == out.result = NoResult /\ TrackWith(Indices(trackingKeyframeList), {"none"})

TrackObserved ==
  /\ phase = "ready"
  /\ out.result = NoResult
  /\ \E targetIndex \in Indices(trackingKeyframeList) :
       LET T == track(kernelCaches, builds, live, targetIndex, "none")
       IN  /\ kernelCaches' = T.caches
           /\ builds' = T.builds
           /\ live' = T.live
           /\ \E pattern \in Patterns, g \in Garbages :
                LET M == computeMatching(T.caches, pattern, targetIndex, g)
                IN  \E transform \in Transforms :
                      out' = [op |-> "track", threw |-> FALSE,
                              args |-> <<targetIndex, transform>>,
                              calls |-> <<Call(targetIndex, transform)>>,
                              result |-> returned(M, transform, targetIndex, g)]
  /\ UNCHANGED <<cfg, phase, debugMode, trackingKeyframeList, featurePointsListT>>

NextObserved == ConstructorObserved \/ TrackHealthy \/ TrackObserved

SpecObserved == InitObserved /\ [][NextObserved]_vars

(***************************************************************************)
(* Claims.                                                                 *)
(***************************************************************************)
\* the last call was a track() that returned, and the state holds what it returned
Observed == out.op = "track" /\ ~out.threw /\ out.result # NoResult

ObservedFrame == At(trackingKeyframeList, out.args[1])
ObservedFeatures == At(featurePointsListT, out.args[1])
Slots == Indices(out.result.sim)
InGoodTrack(i) == \E k \in Indices(out.result.goodTrack) : At(out.result.goodTrack, k) = i

\* C1: a track() call emits a correspondence for slot i exactly when
\* i < points.length and sim[i] > threshold; worldCoords and screenCoords have
\* the same length and follow the accepted slots in ascending order; the world
\* coordinate of slot i is (points[i].x / scale, points[i].y / scale, 0) and its
\* screen coordinate is computed from the slot's matching point.
C1_Correspondences ==
  Observed =>
    LET r == out.result
        tf == ObservedFrame
    IN  /\ \A i \in Slots :
             InGoodTrack(i) <=> (i < Len(tf.points) /\ ScoreGt(At(r.sim, i), AR2_SIM_THRESH))
        /\ \A k \in Indices(r.goodTrack) :
             /\ At(r.goodTrack, k) \in Slots
             /\ k > 0 => At(r.goodTrack, k - 1) < At(r.goodTrack, k)
        /\ Len(r.worldCoords) = Len(r.goodTrack)
        /\ Len(r.screenCoords) = Len(r.goodTrack)
        /\ \A k \in Indices(r.goodTrack) :
             LET i == At(r.goodTrack, k)
                 w == At(r.worldCoords, k)
                 sc == At(r.screenCoords, k)
             IN  /\ i < Len(tf.points)
                 /\ RatMul(w.x, tf.scale) = Rat(At(tf.points, i).x, 1)
                 /\ RatMul(w.y, tf.scale) = Rat(At(tf.points, i).y, 1)
                 /\ w.z = 0
                 /\ sc.transform = modelViewProjectionTransformOf(out.args[2])
                 /\ sc.x = At(r.matchingPoints, i)[1]
                 /\ sc.y = At(r.matchingPoints, i)[2]

\* a call that emits a correspondence and leaves out a padding slot whose
\* similarity is above the threshold
C1_Witness ==
  /\ Observed
  /\ Len(out.result.goodTrack) > 0
  /\ \E i \in Slots :
       /\ i >= Len(ObservedFrame.points)
       /\ ScoreGt(At(out.result.sim, i), AR2_SIM_THRESH)

ObservedKernels == kernelCaches.computeMatching[1]
ObservedImage == out.result.image[1]
Candidates == 0 .. ObservedKernels.searchSize * ObservedKernels.searchSize - 1
ScoreAt(f, c) == At(At(out.result.allSims, f), c)
SameScore(a, b) == ~ScoreGt(a, b) /\ ~ScoreGt(b, a)

C6_Quantized ==
  (phase = "ready" /\ HasMatching(kernelCaches)) =>
    \A t \in Indices(trackingKeyframeList) :
      LET tf == At(trackingKeyframeList, t)
          features == At(featurePointsListT, t)
          K == ObservedKernels
          OnGrid(refined, predicted) ==
            \E k \in -cfg.AR2_SEARCH_SIZE .. cfg.AR2_SEARCH_SIZE :
              refined = RatAdd(predicted, RatDiv(Rat(k * cfg.AR2_SEARCH_GAP, 1), tf.scale))
      IN  \A f \in Indices(features), maxIndex \in 0 .. K.searchSize * K.searchSize - 1 :
            LET mp == kernel2(K, features, prebuildImageProperties(tf), maxIndex, f)
            IN  OnGrid(mp[1], At(features, f)[1]) /\ OnGrid(mp[2], At(features, f)[2])

\* what kernel1 reads at (f, c): the window of the rectified image and of the template
WindowOffsets == Indices(Table(LAMBDA o : o, 0, TemplateCount(ObservedKernels)))
Centre(f) == sCenter(ObservedFeatures, prebuildImageProperties(ObservedFrame), f)
Start(f, c) == searchStart(ObservedKernels, ObservedFeatures, prebuildImageProperties(ObservedFrame), f, c)
PointWindow(f, c) ==
  [o \in WindowOffsets |->
     targetPixelAt(ObservedKernels, ObservedImage, out.result.garbage[1], Start(f, c),
                   TemplateOffset(ObservedKernels, o))]
TemplateWindow(f) ==
  [o \in WindowOffsets |->
     markerPixelAt(ObservedKernels, ObservedFrame, out.result.garbage[1], Centre(f),
                   TemplateOffset(ObservedKernels, o))]
ZeroVariance(w) == \A a, b \in DOMAIN w : w[a] = w[b]

\* C7 as stated: -3 exactly when the rectified-image window of the candidate has
\* zero variance and -4 exactly when the template window of the feature has,
\* each whatever the other window and the candidate's position are.
C7_Independent ==
  Observed =>
    \A f \in Slots, c \in Candidates :
      /\ ScoreAt(f, c) = Sentinel(-3) <=> ZeroVariance(PointWindow(f, c))
      /\ ScoreAt(f, c) = Sentinel(-4) <=> ZeroVariance(TemplateWindow(f))

\* C7 amended: for a candidate that is not answered with -2, -3 exactly when
\* the rectified-image window has zero variance, and -4 exactly when the
\* rectified-image window has non-zero variance and the template window has zero
\* variance (intensities and sums exact).
C7_Precedence ==
  Observed =>
    \A f \in Slots, c \in Candidates :
      ScoreAt(f, c) # Sentinel(-2) =>
        /\ ScoreAt(f, c) = Sentinel(-3) <=> ZeroVariance(PointWindow(f, c))
        /\ ScoreAt(f, c) = Sentinel(-4) <=>
             (~ZeroVariance(PointWindow(f, c)) /\ ZeroVariance(TemplateWindow(f)))

\* a call with one candidate answered -3 though its template window has zero
\* variance too, and another answered -4
C7_Witness ==
  /\ Observed
  /\ \E f \in Slots, c \in Candidates :
       ScoreAt(f, c) = Sentinel(-3) /\ ZeroVariance(TemplateWindow(f))
  /\ \E f \in Slots, c \in Candidates : ScoreAt(f, c) = Sentinel(-4)

\* C10: for every slot and every candidate not answered with -2, every read of
\* the loop is inside its buffer: 0 <= sx2 < width and 0 <= sy2 < height of the
\* rectified image, 0 <= fx2 < markerWidth and 0 <= fy2 < markerHeight.
C10_ReadsInside ==
  Observed =>
    \A f \in Slots, c \in Candidates :
      ScoreAt(f, c) # Sentinel(-2) =>
        \A o \in WindowOffsets :
          LET tr == targetRead(ObservedKernels, Start(f, c), TemplateOffset(ObservedKernels, o))
              mr == markerRead(ObservedKernels, Centre(f), TemplateOffset(ObservedKernels, o))
          IN  /\ 0 <= tr.x /\ tr.x < ObservedImage.width
              /\ 0 <= tr.y /\ tr.y < ObservedImage.height
              /\ 0 <= mr.x /\ mr.x < ObservedFrame.width
              /\ 0 <= mr.y /\ mr.y < ObservedFrame.height

TargetCount == Len(trackingKeyframeList)

\* C2: every per-frame tensor a track() call acquires is released when the call
\* ends, however it ends: after any calls the live tensors are those of the
\* target store.
C2_Released == phase = "ready" => live = PersistentTensors(TargetCount)

\* C3: the cached matching kernels used by a track() call are the ones that
\* would be built afresh for that call: their bounds check has the width and
\* height of the rectified image of the target being tracked.
C3_FreshKernels ==
  (out.op = "track" /\ ~out.threw) =>
    LET tf == At(trackingKeyframeList, out.args[1])
    IN  kernelCaches.computeMatching =
          <<BuildMatchingKernels(cfg, Len(At(featurePointsListT, out.args[1])), tf.height, tf.width)>>

Range(seq) == {seq[i] : i \in DOMAIN seq}
Triple(tf) == <<tf.width, tf.height, tf.scale>>
ProjectionKeys == {e.key : e \in kernelCaches.computeProjection}

\* C4: each cache slot is written at most once and no entry is replaced or
\* removed; the projection cache has exactly one entry per key, its key is the
\* key of a target and its kernel the one built for that target's
\* (width, height, scale); two targets have the same key exactly when their
\* triples are equal.
C4_BuiltOnce ==
  /\ \A i, j \in DOMAIN builds : builds[i] = builds[j] => i = j
  /\ Range(builds) =
       ProjectionKeys \cup (IF HasMatching(kernelCaches) THEN {"computeMatching"} ELSE {})
  /\ Cardinality(ProjectionKeys) = Cardinality(kernelCaches.computeProjection)
  /\ \A e \in kernelCaches.computeProjection :
       /\ \E t \in Indices(trackingKeyframeList) : kernelKey(At(trackingKeyframeList, t)) = e.key
       /\ \A t \in Indices(trackingKeyframeList) :
            kernelKey(At(trackingKeyframeList, t)) = e.key =>
              e.kernel = BuildProjectionKernel(At(trackingKeyframeList, t))
  /\ \A t, u \in Indices(trackingKeyframeList) :
       kernelKey(At(trackingKeyframeList, t)) = kernelKey(At(trackingKeyframeList, u))
         <=> Triple(At(trackingKeyframeList, t)) = Triple(At(trackingKeyframeList, u))

DummyRunReturned == out.op = "dummyRun" /\ ~out.threw

\* a warm-up over two targets of equal triple and one of another: two
\* projection entries, three cache writes
C4_Witness ==
  /\ DummyRunReturned
  /\ \E t, u \in Indices(trackingKeyframeList) :
       /\ t # u
       /\ Triple(At(trackingKeyframeList, t)) = Triple(At(trackingKeyframeList, u))
       /\ At(trackingKeyframeList, t) # At(trackingKeyframeList, u)
  /\ Cardinality(kernelCaches.computeProjection) = 1
  /\ Len(builds) = 2

CacheComplete ==
  /\ HasMatching(kernelCaches)
  /\ \A t \in Indices(trackingKeyframeList) :
       HasProjection(kernelCaches, kernelKey(At(trackingKeyframeList, t)))

DummyCalls == Table(LAMBDA i : Call(i, DummyTransform), 0, TargetCount)

\* C5 as stated: dummyRun calls track once per target index 0 .. n-1, in
\* ascending order, with the dummy transform; when it has returned the cache
\* holds the matching kernels and a projection kernel for every target's key.
C5_WarmAll == DummyRunReturned => (out.calls = DummyCalls /\ CacheComplete)

\* C5 amended: as stated for a tracker with at least one target (with none,
\* dummyRun calls nothing and leaves the cache empty); and once the cache holds
\* those entries, or the tracker has no target, no call changes the cache.
C5_WarmUp ==
  /\ [](DummyRunReturned => (out.calls = DummyCalls /\ (TargetCount > 0 => CacheComplete)))
  /\ [][(phase = "ready" /\ (CacheComplete \/ TargetCount = 0)) => kernelCaches' = kernelCaches]_vars

\* a warm-up over two targets of different keys has returned
C5_Witness ==
  /\ DummyRunReturned
  /\ Len(out.calls) = 2
  /\ Cardinality(kernelCaches.computeProjection) = 2

\* the constructor's arguments are malformed: the number of marker dimensions
\* differs from the number of datasets, a dataset has no keyframe, or a keyframe
\* has no points
Malformed(args) ==
  \/ args[1] # Len(args[2])
  \/ \E i \in DOMAIN args[2] : Len(args[2][i]) = 0
  \/ \E i \in DOMAIN args[2] : Len(args[2][i]) > 0 /\ Len(args[2][i][1].points) = 0

\* C8: constructing a Tracker from malformed input fails at construction.
C8_FailFast == (out.op = "constructor" /\ Malformed(out.args)) => out.threw

====
